---- MODULE Spec2Model ----
(***************************************************************************)
(* Model of server/src/domain/sql_migrations.rs: the version reader        *)
(* get_schema_version, the migration step upgrade_to_v1 (one action per    *)
(* SQL statement, so that a run can stop between any two statements) and   *)
(* the orchestrator entry point migrate_from_version.                      *)
(***************************************************************************)
EXTENDS Integers, Sequences, FiniteSets, TLC

\* ------------------------------------------------------------------ bounds
\* Creation timestamps and clock readings range over 0..MaxDate.
MaxDate == 1
\* At most MaxRuns runs of upgrade_to_v1 reach their last statement.
MaxRuns == 1
\* The application sends at most MaxAppOps statements after a complete run.
MaxAppOps == 1
\* migrate_from_version is called with a version in 0..MaxVersion.
MaxVersion == 2

\* ------------------------------------------------------- program constants
\* SchemaVersion(1), the version the step records and the orchestrator's target.
TargetVersion == 1

LegacyName == "lldap_readonly"
CurrentName == "lldap_password_manager"

\* ------------------------------------------------------------ input domains
UserIds == {"alice", "bob"}
GroupIds == {1, 2}
GroupNames == {LegacyName, CurrentName, "engineering"}
Dates == 0..MaxDate

\* ------------------------------------------------------------ column values
\* A column that the table does not have reads as NoUuid / NoDate.
NoUuid == <<"no column">>
NoDate == -1
\* The default "" the add-column statements give the uuid column.
EmptyUuid == <<>>
\* Option<SchemaVersion>::None
NoVersion == -1

\* Uuid::from_name_and_date: a pure, injective function of (name, timestamp).
from_name_and_date(name, date) == <<name, date>>

\* ---------------------------------------------------------------- the store
\* Schema Catalog: the four tables and the columns the step may have to add.
EmptyDb ==
  [ hasUsers       |-> FALSE, uUuidCol |-> FALSE, users  |-> << >>,
    hasGroups      |-> FALSE, gDateCol |-> FALSE, gUuidCol |-> FALSE,
    groups         |-> << >>,
    hasMemberships |-> FALSE, memberships |-> {},
    hasMetadata    |-> FALSE, metadata |-> << >> ]

\* Mutant: the reader wants exactly one row and reads none otherwise.
get_schema_version_exactly_one(db) ==
  IF db.hasMetadata /\ Len(db.metadata) = 1 THEN Head(db.metadata) ELSE NoVersion

\* Mutant: the reader answers version 0 where it should answer none.
get_schema_version_zero_default(db) ==
  IF db.hasMetadata /\ Len(db.metadata) > 0 THEN Head(db.metadata) ELSE 0

\* Query::select().from(Metadata).column(Version) ... .one().ok().flatten():
\* the first row, and none when the table is missing or empty.
get_schema_version(db) ==
  IF db.hasMetadata /\ Len(db.metadata) > 0 THEN Head(db.metadata) ELSE NoVersion

\* none is treated as version 0
VersionOrZero(db) ==
  IF get_schema_version(db) = NoVersion THEN 0 ELSE get_schema_version(db)

\* CREATE TABLE IF NOT EXISTS users (..., uuid)
CreateUsers(db) ==
  IF db.hasUsers THEN db
  ELSE [db EXCEPT !.hasUsers = TRUE, !.uUuidCol = TRUE, !.users = << >>]

\* CREATE TABLE IF NOT EXISTS groups (group_id, display_name, creation_date, uuid)
CreateGroups(db) ==
  IF db.hasGroups THEN db
  ELSE [db EXCEPT !.hasGroups = TRUE, !.gDateCol = TRUE, !.gUuidCol = TRUE,
                  !.groups = << >>]

\* ALTER TABLE groups ADD COLUMN creation_date NOT NULL DEFAULT now
\* (the statement succeeds only when the column is missing)
AddGroupsCreationDate(db, now) ==
  [db EXCEPT !.gDateCol = TRUE,
             !.groups = [g \in DOMAIN db.groups |->
                           [db.groups[g] EXCEPT !.creation_date = now]]]

\* ALTER TABLE groups ADD COLUMN uuid NOT NULL DEFAULT ""
AddGroupsUuid(db) ==
  [db EXCEPT !.gUuidCol = TRUE,
             !.groups = [g \in DOMAIN db.groups |->
                           [db.groups[g] EXCEPT !.uuid = EmptyUuid]]]

\* ALTER TABLE users ADD COLUMN uuid NOT NULL DEFAULT ""
AddUsersUuid(db) ==
  [db EXCEPT !.uUuidCol = TRUE,
             !.users = [u \in DOMAIN db.users |->
                          [db.users[u] EXCEPT !.uuid = EmptyUuid]]]

\* SELECT group_id, display_name, creation_date FROM groups
SelectGroups(db) ==
  { [group_id |-> g, display_name |-> db.groups[g].display_name,
     creation_date |-> db.groups[g].creation_date] : g \in DOMAIN db.groups }

\* SELECT user_id, creation_date FROM users
SelectUsers(db) ==
  { [user_id |-> u, creation_date |-> db.users[u].creation_date] :
      u \in DOMAIN db.users }

\* Mutant: the update has lost its WHERE clause.
UpdateGroupUuid_no_where(db, result) ==
  [db EXCEPT !.groups =
     [g \in DOMAIN db.groups |->
        [db.groups[g] EXCEPT
           !.uuid = from_name_and_date(result.display_name, result.creation_date)]]]

\* UPDATE groups SET uuid = from_name_and_date(display_name, creation_date)
\*   WHERE group_id = result.group_id
UpdateGroupUuid(db, result) ==
  [db EXCEPT !.groups =
     [g \in DOMAIN db.groups |->
        IF g = result.group_id
        THEN [db.groups[g] EXCEPT
                !.uuid = from_name_and_date(result.display_name, result.creation_date)]
        ELSE db.groups[g]]]

\* UPDATE users SET uuid = from_name_and_date(user_id, creation_date)
\*   WHERE user_id = result.user_id
UpdateUserUuid(db, result) ==
  [db EXCEPT !.users =
     [u \in DOMAIN db.users |->
        IF u = result.user_id
        THEN [db.users[u] EXCEPT
                !.uuid = from_name_and_date(result.user_id, result.creation_date)]
        ELSE db.users[u]]]

\* Mutant: the statement is missing from the step.
CreateMemberships_missing(db) == db

\* CREATE TABLE IF NOT EXISTS memberships (user_id, group_id, foreign keys)
CreateMemberships(db) ==
  IF db.hasMemberships THEN db
  ELSE [db EXCEPT !.hasMemberships = TRUE, !.memberships = {}]

\* The rename update breaks the unique key on display_name when a group
\* already carries the new name.
RenameConflicts(db) ==
  /\ \E g \in DOMAIN db.groups : db.groups[g].display_name = LegacyName
  /\ \E g \in DOMAIN db.groups : db.groups[g].display_name = CurrentName

\* Mutant: the rename also resets the uuid of the row it renames.
RenameReadonly_clears_uuid(db) ==
  [db EXCEPT !.groups =
     [g \in DOMAIN db.groups |->
        IF db.groups[g].display_name = LegacyName
        THEN [db.groups[g] EXCEPT !.display_name = CurrentName,
                                  !.uuid = EmptyUuid]
        ELSE db.groups[g]]]

\* UPDATE groups SET display_name = 'lldap_password_manager'
\*   WHERE display_name = 'lldap_readonly'
RenameReadonly(db) ==
  [db EXCEPT !.groups =
     [g \in DOMAIN db.groups |->
        IF db.groups[g].display_name = LegacyName
        THEN [db.groups[g] EXCEPT !.display_name = CurrentName]
        ELSE db.groups[g]]]

\* CREATE TABLE IF NOT EXISTS metadata (version)
CreateMetadata(db) ==
  IF db.hasMetadata THEN db
  ELSE [db EXCEPT !.hasMetadata = TRUE, !.metadata = << >>]

\* Mutant: the step records the version it upgrades from.
InsertVersion_records_old(db) ==
  [db EXCEPT !.metadata = Append(db.metadata, TargetVersion - 1)]

\* INSERT INTO metadata (version) VALUES (1)
InsertVersion(db) ==
  [db EXCEPT !.metadata = Append(db.metadata, TargetVersion)]

\* The backfill loops run to their end: every row of the snapshot updated.
RECURSIVE BackfillGroups(_, _)
BackfillGroups(db, rows) ==
  IF rows = {} THEN db
  ELSE LET r == CHOOSE x \in rows : TRUE
       IN  BackfillGroups(UpdateGroupUuid(db, r), rows \ {r})

RECURSIVE BackfillUsers(_, _)
BackfillUsers(db, rows) ==
  IF rows = {} THEN db
  ELSE LET r == CHOOSE x \in rows : TRUE
       IN  BackfillUsers(UpdateUserUuid(db, r), rows \ {r})

\* upgrade_to_v1 run from its first to its last statement with no statement
\* failing for an outside reason; now is the clock reading of the run.
UpgradeFull(db, now) ==
  LET a == CreateGroups(CreateUsers(db))
      b == IF a.gDateCol THEN a ELSE AddGroupsCreationDate(a, now)
      c == IF b.gUuidCol THEN b ELSE BackfillGroups(AddGroupsUuid(b), SelectGroups(AddGroupsUuid(b)))
      d == IF c.uUuidCol THEN c ELSE BackfillUsers(AddUsersUuid(c), SelectUsers(AddUsersUuid(c)))
      e == RenameReadonly(CreateMemberships(d))
  IN  InsertVersion(CreateMetadata(e))

\* Mutant: the downgrade test is off by one.
migrate_from_version_off_by_one(d, version) ==
  IF version > TargetVersion + 1
  THEN [result |-> "downgrade", db |-> d, stmts |-> 0]
  ELSE [result |-> "ok", db |-> d, stmts |-> 0]

\* Mutant: the step is run again for every version up to the target.
migrate_from_version_reruns_step(d, version) ==
  IF version > TargetVersion
  THEN [result |-> "downgrade", db |-> d, stmts |-> 0]
  ELSE [result |-> "ok", db |-> UpgradeFull(d, 0), stmts |-> 1]

\* -------------------------------------------------------- orchestrator
\* migrate_from_version(pool, version): bails on a version above 1 and
\* otherwise returns Ok; it issues no statement on the pool.
migrate_from_version(d, version) ==
  IF version > TargetVersion
  THEN [result |-> "downgrade", db |-> d, stmts |-> 0]
  ELSE [result |-> "ok", db |-> d, stmts |-> 0]

\* ------------------------------------------------------ starting stores
\* Rows of a release that had no uuid column; creation_date of groups may be
\* missing too.  Display names are unique.
PreGroup(name, date) ==
  [display_name |-> name, creation_date |-> date, uuid |-> NoUuid]

\* No group, one group of any name and date, or two groups of different names
\* and dates.
PreGroups(hasDate) ==
  LET first == IF hasDate THEN 0 ELSE NoDate
      last  == IF hasDate THEN MaxDate ELSE NoDate
  IN  {[g \in {} |-> PreGroup("", NoDate)]}
        \cup { [g \in {1} |-> PreGroup(n, d)] :
                 n \in GroupNames, d \in IF hasDate THEN Dates ELSE {NoDate} }
        \cup { [g \in GroupIds |-> IF g = 1 THEN PreGroup(n, first) ELSE PreGroup(m, last)] :
                 n \in GroupNames, m \in {LegacyName, "engineering"} } 

PreUser(date) == [creation_date |-> date, uuid |-> NoUuid]

\* No user, one user of any date, or two users of different dates.
PreUsers ==
  {[u \in {} |-> PreUser(NoDate)]}
    \cup { [u \in {"alice"} |-> PreUser(d)] : d \in Dates }
    \cup { [u \in UserIds |-> IF u = "alice" THEN PreUser(0) ELSE PreUser(MaxDate)] }

PreStoresWith(hasDate) ==
  { [ hasUsers       |-> TRUE, uUuidCol |-> FALSE, users |-> us,
      hasGroups      |-> TRUE, gDateCol |-> hasDate, gUuidCol |-> FALSE,
      groups         |-> gs,
      hasMemberships |-> TRUE, memberships |-> ms,
      hasMetadata    |-> FALSE, metadata |-> << >> ] :
      us \in PreUsers, gs \in PreGroups(hasDate),
      ms \in {{}, {<<"alice", 1>>}} }

PreStores == PreStoresWith(TRUE) \cup PreStoresWith(FALSE)

PreIdentifierStores ==
  { s \in PreStores :
      /\ \A g, h \in DOMAIN s.groups :
           g # h => s.groups[g].display_name # s.groups[h].display_name
      /\ \A m \in s.memberships : m[1] \in DOMAIN s.users /\ m[2] \in DOMAIN s.groups }

\* A store already at version 1: what a complete run left.
V1Stores ==
  { UpgradeFull(s, 0) :
      s \in {EmptyDb} \cup { p \in PreIdentifierStores :
                               ~RenameConflicts(p) /\ p.gDateCol /\ p.memberships # {} } }

InitStores == {EmptyDb} \cup PreIdentifierStores \cup V1Stores

\* ------------------------------------------------------------------ state
VARIABLES
  db,          \* the store
  fkOn,        \* foreign-key enforcement of the connection
  pc,          \* the statement upgrade_to_v1 executes next, "idle" outside a run
  gTodo,       \* rows of the Groups snapshot the loop has not visited
  uTodo,       \* rows of the Users snapshot the loop has not visited
  gSnap,       \* the Groups snapshot of the latest run
  uSnap,       \* the Users snapshot of the latest run
  gLog,        \* group ids the latest run updated, in order
  uLog,        \* user ids the latest run updated, in order
  lastOp,      \* the latest operation called
  lastArg,     \* the version given to the latest migrate_from_version
  lastResult,  \* how the latest operation ended
  sent,        \* whether the latest operation has sent a statement to the store
  okRuns,      \* runs of upgrade_to_v1 that executed their last statement
  startDb,     \* the store as the latest run found it, when it found it
               \* untouched since the start or since a complete run
  db0,         \* the starting store
  appOps,      \* statements the application sent after a complete run
  seen         \* what get_schema_version returned, when the latest operation
               \* was a call of it

vars == <<db, fkOn, pc, gTodo, uTodo, gSnap, uSnap, gLog, uLog, lastOp,
          lastArg, lastResult, sent, okRuns, startDb, db0, appOps, seen>>

locals == <<gTodo, uTodo, gSnap, uSnap, gLog, uLog>>
ghosts == <<okRuns, startDb, db0, lastOp, lastArg, appOps, seen>>

Init ==
  /\ db0 \in InitStores
  /\ db = db0
  /\ fkOn = FALSE
  /\ pc = "idle"
  /\ gTodo = {} /\ uTodo = {} /\ gSnap = {} /\ uSnap = {}
  /\ gLog = << >> /\ uLog = << >>
  /\ lastOp = "none" /\ lastArg = 0 /\ lastResult = "none"
  /\ sent = FALSE
  /\ okRuns = 0
  /\ startDb = {}
  /\ appOps = 0
  /\ seen = << >>

\* One statement sent; the run goes on with statement next.
Goto(next) ==
  /\ pc' = next
  /\ sent' = TRUE
  /\ UNCHANGED <<lastResult, ghosts>>

\* upgrade_to_v1 returns (Ok, Err) or panics after sending a statement.  What
\* the run read and updated is kept as the record of a run that returned Ok.
Return(res) ==
  /\ pc' = "idle"
  /\ sent' = TRUE
  /\ lastResult' = res
  /\ startDb' = IF res = "ok" THEN startDb ELSE {}
  /\ gTodo' = {} /\ uTodo' = {}
  /\ gSnap' = (IF res = "ok" THEN gSnap ELSE {})
  /\ uSnap' = (IF res = "ok" THEN uSnap ELSE {})
  /\ gLog' = (IF res = "ok" THEN gLog ELSE << >>)
  /\ uLog' = (IF res = "ok" THEN uLog ELSE << >>)
  /\ UNCHANGED <<okRuns, db0, lastOp, lastArg, appOps, seen>>

\* A call of upgrade_to_v1.
StartUpgrade ==
  /\ pc = "idle"
  /\ okRuns < MaxRuns
  /\ pc' = "pragma"
  /\ lastOp' = "upgrade"
  /\ lastResult' = "running"
  /\ sent' = FALSE
  /\ startDb' = IF db = db0 \/ (lastOp = "upgrade" /\ lastResult = "ok")
                THEN {db} ELSE {}
  /\ gTodo' = {} /\ uTodo' = {} /\ gSnap' = {} /\ uSnap' = {}
  /\ gLog' = << >> /\ uLog' = << >>
  /\ lastArg' = 0
  /\ seen' = << >>
  /\ UNCHANGED <<db, fkOn, okRuns, db0, appOps>>

\* PRAGMA foreign_keys = ON
Pragma ==
  /\ pc = "pragma"
  /\ fkOn' = TRUE
  /\ Goto("create_users")
  /\ UNCHANGED <<db, locals>>

CreateUsersStmt ==
  /\ pc = "create_users"
  /\ db' = CreateUsers(db)
  /\ Goto("create_groups")
  /\ UNCHANGED <<fkOn, locals>>

CreateGroupsStmt ==
  /\ pc = "create_groups"
  /\ db' = CreateGroups(db)
  /\ Goto("add_groups_creation_date")
  /\ UNCHANGED <<fkOn, locals>>

\* The add-column fails when the column exists; the failure is dropped.
AddGroupsCreationDateStmt ==
  /\ pc = "add_groups_creation_date"
  /\ IF db.gDateCol THEN db' = db
     ELSE \E now \in Dates : db' = AddGroupsCreationDate(db, now)
  /\ Goto("add_groups_uuid")
  /\ UNCHANGED <<fkOn, locals>>

\* The backfill runs only when the add-column succeeded.
AddGroupsUuidStmt ==
  /\ pc = "add_groups_uuid"
  /\ IF db.gUuidCol
     THEN db' = db /\ Goto("add_users_uuid")
     ELSE db' = AddGroupsUuid(db) /\ Goto("select_groups")
  /\ UNCHANGED <<fkOn, locals>>

SelectGroupsStmt ==
  /\ pc = "select_groups"
  /\ gSnap' = SelectGroups(db)
  /\ gTodo' = SelectGroups(db)
  /\ Goto(IF SelectGroups(db) = {} THEN "add_users_uuid" ELSE "update_group")
  /\ UNCHANGED <<db, fkOn, uTodo, uSnap, gLog, uLog>>

\* One turn of the loop over the snapshot; the order of the rows is the
\* store's choice.
UpdateGroupStmt ==
  /\ pc = "update_group"
  /\ \E result \in gTodo :
       /\ db' = UpdateGroupUuid(db, result)
       /\ gTodo' = gTodo \ {result}
       /\ gLog' = Append(gLog, result.group_id)
       /\ Goto(IF gTodo = {result} THEN "add_users_uuid" ELSE "update_group")
  /\ UNCHANGED <<fkOn, uTodo, gSnap, uSnap, uLog>>

AddUsersUuidStmt ==
  /\ pc = "add_users_uuid"
  /\ IF db.uUuidCol
     THEN db' = db /\ Goto("create_memberships")
     ELSE db' = AddUsersUuid(db) /\ Goto("select_users")
  /\ UNCHANGED <<fkOn, locals>>

SelectUsersStmt ==
  /\ pc = "select_users"
  /\ uSnap' = SelectUsers(db)
  /\ uTodo' = SelectUsers(db)
  /\ Goto(IF SelectUsers(db) = {} THEN "create_memberships" ELSE "update_user")
  /\ UNCHANGED <<db, fkOn, gTodo, gSnap, gLog, uLog>>

UpdateUserStmt ==
  /\ pc = "update_user"
  /\ \E result \in uTodo :
       /\ db' = UpdateUserUuid(db, result)
       /\ uTodo' = uTodo \ {result}
       /\ uLog' = Append(uLog, result.user_id)
       /\ Goto(IF uTodo = {result} THEN "create_memberships" ELSE "update_user")
  /\ UNCHANGED <<fkOn, gTodo, gSnap, uSnap, gLog>>

CreateMembershipsStmt ==
  /\ pc = "create_memberships"
  /\ db' = CreateMemberships(db)
  /\ Goto("select_readonly")
  /\ UNCHANGED <<fkOn, locals>>

\* query_one(...).is_ok(): Ok(None) is Ok too, so the update follows whenever
\* the select itself did not fail.
SelectReadonlyStmt ==
  /\ pc = "select_readonly"
  /\ Goto("rename")
  /\ UNCHANGED <<db, fkOn, locals>>

RenameStmt ==
  /\ pc = "rename"
  /\ IF RenameConflicts(db)
     THEN db' = db /\ Return("err")
     ELSE db' = RenameReadonly(db) /\ Goto("create_metadata") /\ UNCHANGED locals
  /\ UNCHANGED fkOn

CreateMetadataStmt ==
  /\ pc = "create_metadata"
  /\ db' = CreateMetadata(db)
  /\ Goto("insert_version")
  /\ UNCHANGED <<fkOn, locals>>

InsertVersionStmt ==
  /\ pc = "insert_version"
  /\ db' = InsertVersion(db)
  /\ pc' = "assert"
  /\ sent' = TRUE
  /\ okRuns' = okRuns + 1
  /\ UNCHANGED <<fkOn, locals, lastResult, startDb, db0, lastOp, lastArg,
                 appOps, seen>>

\* assert_eq!(get_schema_version(pool).await.unwrap().0, 1); Ok(())
AssertStmt ==
  /\ pc = "assert"
  /\ Return(IF get_schema_version(db) = TargetVersion THEN "ok" ELSE "panic")
  /\ UNCHANGED <<db, fkOn>>

\* Statements whose failure `?` hands to the caller.
Propagated ==
  { "create_users", "create_groups", "select_groups", "update_group",
    "select_users", "update_user", "create_memberships", "rename",
    "create_metadata", "insert_version" }

\* Mutant: after a failed add-column of groups.uuid the backfill still runs.
AfterSwallowed_backfills(at) ==
  CASE at = "pragma"                   -> "create_users"
    [] at = "add_groups_creation_date" -> "add_groups_uuid"
    [] at = "add_groups_uuid"          -> "select_groups"
    [] at = "add_users_uuid"           -> "create_memberships"
    [] at = "select_readonly"          -> "create_metadata"

\* Where the run goes on when a failure is dropped (`let _ =`, `.is_ok()`).
AfterSwallowed(at) ==
  CASE at = "pragma"                   -> "create_users"
    [] at = "add_groups_creation_date" -> "add_groups_uuid"
    [] at = "add_groups_uuid"          -> "add_users_uuid"
    [] at = "add_users_uuid"           -> "create_memberships"
    [] at = "select_readonly"          -> "create_metadata"

\* Mutant: the failure of CREATE TABLE metadata is dropped and the run goes on.
Fail_drops_create_metadata ==
  /\ pc \notin {"idle"}
  /\ IF pc \in Propagated \ {"create_metadata"} THEN Return("err")
     ELSE IF pc = "assert" THEN Return("panic")
     ELSE IF pc = "create_metadata"
          THEN Goto("insert_version") /\ UNCHANGED locals
     ELSE Goto(AfterSwallowed(pc)) /\ UNCHANGED locals
  /\ UNCHANGED <<db, fkOn>>

\* The statement at pc fails for a reason outside the store's contents.
Fail ==
  /\ pc \notin {"idle"}
  /\ IF pc \in Propagated THEN Return("err")
     ELSE IF pc = "assert" THEN Return("panic")
     ELSE Goto(AfterSwallowed(pc)) /\ UNCHANGED locals
  /\ UNCHANGED <<db, fkOn>>

\* The process stops between two statements; a new process has a new
\* connection and no memory of the run.
Crash ==
  /\ pc \notin {"idle", "pragma"}
  /\ pc' = "idle"
  /\ lastResult' = "crash"
  /\ fkOn' = FALSE
  /\ gTodo' = {} /\ uTodo' = {} /\ gSnap' = {} /\ uSnap' = {}
  /\ gLog' = << >> /\ uLog' = << >>
  /\ sent' = TRUE
  /\ startDb' = {}
  /\ UNCHANGED <<db, okRuns, db0, lastOp, lastArg, appOps, seen>>

\* A call of migrate_from_version with any version.
Migrate ==
  /\ pc = "idle"
  /\ \E version \in 0..MaxVersion :
       LET r == migrate_from_version(db, version)
       IN  /\ db' = r.db
           /\ lastResult' = r.result
           /\ sent' = (r.stmts > 0)
           /\ lastArg' = version
  /\ lastOp' = "migrate"
  /\ seen' = << >>
  /\ UNCHANGED <<fkOn, pc, locals, okRuns, startDb, db0, appOps>>

Step ==
  \/ Pragma
  \/ CreateUsersStmt
  \/ CreateGroupsStmt
  \/ AddGroupsCreationDateStmt
  \/ AddGroupsUuidStmt
  \/ SelectGroupsStmt
  \/ UpdateGroupStmt
  \/ AddUsersUuidStmt
  \/ SelectUsersStmt
  \/ UpdateUserStmt
  \/ CreateMembershipsStmt
  \/ SelectReadonlyStmt
  \/ RenameStmt
  \/ CreateMetadataStmt
  \/ InsertVersionStmt
  \/ AssertStmt

\* Runs may fail at any statement or stop between any two.
Next == StartUpgrade \/ Step \/ Fail \/ Crash \/ Migrate

Spec == Init /\ [][Next]_vars

\* Runs stop only by a crash: no statement fails for an outside reason.
NextCrash == StartUpgrade \/ Step \/ Crash \/ Migrate

SpecCrash == Init /\ [][NextCrash]_vars

\* ------------------------------------------- the store after the migration
\* The Memberships table of lines 253-282 declares both columns as foreign
\* keys with ON DELETE CASCADE.  SQLite applies foreign keys only on a
\* connection on which PRAGMA foreign_keys = ON has succeeded (lines 73-80);
\* on is whether it has.
DeleteUserRow(d, on, user_id) ==
  [d EXCEPT
     !.users = [u \in DOMAIN d.users \ {user_id} |-> d.users[u]],
     !.memberships = IF on THEN { m \in d.memberships : m[1] # user_id }
                     ELSE d.memberships]

DeleteGroupRow(d, on, group_id) ==
  [d EXCEPT
     !.groups = [g \in DOMAIN d.groups \ {group_id} |-> d.groups[g]],
     !.memberships = IF on THEN { m \in d.memberships : m[2] # group_id }
                     ELSE d.memberships]

\* Whether the store refuses the row: a foreign key has no row to point to.
MembershipRefused(d, on, user_id, group_id) ==
  on /\ (user_id \notin DOMAIN d.users \/ group_id \notin DOMAIN d.groups)

InsertMembershipRow(d, on, user_id, group_id) ==
  IF MembershipRefused(d, on, user_id, group_id) THEN d
  ELSE [d EXCEPT !.memberships = @ \cup {<<user_id, group_id>>}]

\* upgrade_to_v1 has returned Ok and the application uses the store through
\* the same connection.
Migrated ==
  /\ pc = "idle"
  /\ \/ lastOp = "upgrade" /\ lastResult = "ok"
     \/ lastOp = "app"

AppStmt(newDb, res) ==
  /\ Migrated
  /\ appOps < MaxAppOps
  /\ db' = newDb
  /\ appOps' = appOps + 1
  /\ lastOp' = "app"
  /\ lastResult' = res
  /\ sent' = TRUE
  /\ seen' = << >>
  /\ UNCHANGED <<fkOn, pc, locals, okRuns, startDb, db0, lastArg>>

DeleteUser ==
  \E u \in DOMAIN db.users : AppStmt(DeleteUserRow(db, fkOn, u), "ok")

DeleteGroup ==
  \E g \in DOMAIN db.groups : AppStmt(DeleteGroupRow(db, fkOn, g), "ok")

InsertMembership ==
  \E u \in UserIds, g \in GroupIds :
    AppStmt(InsertMembershipRow(db, fkOn, u, g),
            IF MembershipRefused(db, fkOn, u, g) THEN "err" ELSE "ok")

NextApp == Next \/ DeleteUser \/ DeleteGroup \/ InsertMembership

SpecApp == Init /\ [][NextApp]_vars

\* ------------------------------------------------- the reader called alone
\* A call of get_schema_version whose query the store answers: with an error
\* when the Metadata table is missing, with no row, or with the first row.
ReadVersion ==
  /\ pc = "idle"
  /\ seen' = <<get_schema_version(db)>>
  /\ lastOp' = "read"
  /\ lastResult' = "ok"
  /\ sent' = TRUE
  /\ UNCHANGED <<db, fkOn, pc, locals, okRuns, startDb, db0, lastArg, appOps>>

\* A call of get_schema_version whose query fails for a reason outside the
\* store's content: .ok() of line 66 turns every Err into none.
ReadVersionFails ==
  /\ pc = "idle"
  /\ seen' = <<NoVersion>>
  /\ lastOp' = "read"
  /\ lastResult' = "dropped"
  /\ sent' = TRUE
  /\ UNCHANGED <<db, fkOn, pc, locals, okRuns, startDb, db0, lastArg, appOps>>

\* The reader called between runs that complete, fail on the rename or are
\* stopped, and between calls of migrate_from_version.
NextRead == NextCrash \/ ReadVersion \/ ReadVersionFails

SpecRead == Init /\ [][NextRead]_vars

\* ================================================================ claims
\* upgrade_to_v1 has just returned Ok.
UpgradeDone == pc = "idle" /\ lastOp = "upgrade" /\ lastResult = "ok"

\* The latest step was a call of migrate_from_version.
MigrateCall == pc = "idle" /\ pc' = "idle" /\ lastOp' = "migrate"

\* C1: a run of upgrade_to_v1 that starts on a store a complete run left (or
\* on a starting store already at version 1) and runs to completion leaves
\* the schema and the rows of every table as it found them.
C1_Idempotent ==
  UpgradeDone =>
    \A s \in startDb : get_schema_version(s) = TargetVersion => db = s

\* C2: when runs of upgrade_to_v1 are stopped between statements and the step
\* is run again until one run completes, the store is one that an
\* uninterrupted run leaves from the same starting store.
C2_CrashSafe ==
  (UpgradeDone /\ okRuns = 1) => \E now \in Dates : db = UpgradeFull(db0, now)

\* C3: whenever get_schema_version reports a version >= 1, every User row and
\* every Group row has a uuid that is neither missing nor the empty default.
C3_IdentifiersPopulated ==
  get_schema_version(db) >= TargetVersion =>
    /\ \A u \in DOMAIN db.users : db.users[u].uuid \notin {NoUuid, EmptyUuid}
    /\ \A g \in DOMAIN db.groups : db.groups[g].uuid \notin {NoUuid, EmptyUuid}

C5_MigrateUpgrades ==
  [][(MigrateCall /\ lastArg' = VersionOrZero(db) /\ lastArg' < TargetVersion
        /\ lastResult' = "ok")
       => get_schema_version(db') = TargetVersion]_vars

\* C6: migrate_from_version given a version above 1 fails with the downgrade
\* condition, sends no statement and leaves the store as it was.
C6_DowngradeRejected ==
  [][(MigrateCall /\ lastArg' > TargetVersion)
       => (lastResult' = "downgrade" /\ db' = db /\ ~sent')]_vars

\* A downgrade was refused on a store that holds rows.
C6_Witness ==
  /\ pc = "idle" /\ lastOp = "migrate" /\ lastArg > TargetVersion
  /\ lastResult = "downgrade"
  /\ DOMAIN db.users # {} /\ DOMAIN db.groups # {} /\ db.memberships # {}

\* C7: migrate_from_version given version 1 returns success, sends no
\* statement and leaves the store as it was.
C7_NoopAtTarget ==
  [][(MigrateCall /\ lastArg' = TargetVersion)
       => (lastResult' = "ok" /\ db' = db /\ ~sent')]_vars

\* migrate_from_version returned success on a store at version 1 with rows.
C7_Witness ==
  /\ pc = "idle" /\ lastOp = "migrate" /\ lastArg = TargetVersion
  /\ lastResult = "ok"
  /\ get_schema_version(db) = TargetVersion
  /\ DOMAIN db.users # {} /\ DOMAIN db.groups # {}

C9_MetadataSingleton == Len(db.metadata) <= 1

\* C10: a complete run on the empty store leaves the four tables, Users and
\* Groups with all their columns, one Metadata row of version 1 and no row in
\* Users, Groups and Memberships.
C10_FreshStore ==
  (UpgradeDone /\ db0 = EmptyDb /\ okRuns = 1) =>
    db = [ hasUsers       |-> TRUE, uUuidCol |-> TRUE, users |-> << >>,
           hasGroups      |-> TRUE, gDateCol |-> TRUE, gUuidCol |-> TRUE,
           groups         |-> << >>,
           hasMemberships |-> TRUE, memberships |-> {},
           hasMetadata    |-> TRUE, metadata |-> <<TargetVersion>> ]

\* The first run on the empty store has completed.
C10_Witness ==
  /\ UpgradeDone /\ db0 = EmptyDb /\ okRuns = 1 /\ startDb = {EmptyDb}
  /\ get_schema_version(db) = TargetVersion

\* C11: after a complete run on an untouched store, every group that was
\* named "lldap_readonly" when the run began is named
\* "lldap_password_manager" and has kept its group id and its creation date;
\* the memberships are the ones the run found; and when no group had the
\* legacy name, no group's display name has changed.
C11_RenameOnMigrate ==
  UpgradeDone =>
    \A s \in startDb :
      /\ \A g \in DOMAIN s.groups :
           s.groups[g].display_name = LegacyName =>
             /\ g \in DOMAIN db.groups
             /\ db.groups[g].display_name = CurrentName
             /\ s.gDateCol =>
                  db.groups[g].creation_date = s.groups[g].creation_date
      /\ db.memberships = s.memberships
      /\ (\A g \in DOMAIN s.groups : s.groups[g].display_name # LegacyName) =>
           \A g \in DOMAIN s.groups :
             /\ g \in DOMAIN db.groups
             /\ db.groups[g].display_name = s.groups[g].display_name

\* The step is retried and runs on (lines 71-330 are executed statement after
\* statement once called), and from some point on no statement is failed from
\* outside and no run is stopped.
SpecRetry ==
  /\ Init /\ [][Next]_vars
  /\ WF_vars(StartUpgrade) /\ WF_vars(Step)
  /\ <>[][StartUpgrade \/ Step \/ Migrate]_vars

\* C12: from every starting store, when the step is retried after every
\* failed or stopped run and outside failures eventually stop, the store
\* eventually is at version 1.
C12_RetryTerminates == <>(get_schema_version(db) = TargetVersion)

\* C13: in every state reached after upgrade_to_v1 has completed, whatever
\* rows the application has deleted or inserted since, every Membership row
\* names a User row and a Group row that exist.
C13_ReferentialIntegrity ==
  Migrated =>
    \A m \in db.memberships :
      m[1] \in DOMAIN db.users /\ m[2] \in DOMAIN db.groups

\* The latest step was a call of get_schema_version.
ReadCall == pc = "idle" /\ pc' = "idle" /\ lastOp' = "read"

C15_Frame ==
  [][/\ DOMAIN db'.users = DOMAIN db.users
     /\ DOMAIN db'.groups = DOMAIN db.groups
     /\ db'.memberships = db.memberships
     /\ \A u \in DOMAIN db.users :
          /\ db'.users[u].creation_date = db.users[u].creation_date
          /\ db'.users[u].uuid # db.users[u].uuid =>
               pc \in {"add_users_uuid", "update_user"}
     /\ \A g \in DOMAIN db.groups :
          /\ db'.groups[g].display_name # db.groups[g].display_name =>
               /\ db.groups[g].display_name = LegacyName
               /\ db'.groups[g].display_name = CurrentName
          /\ db'.groups[g].creation_date # db.groups[g].creation_date =>
               ~db.gDateCol /\ db'.gDateCol
          /\ db'.groups[g].uuid # db.groups[g].uuid =>
               pc \in {"add_groups_uuid", "update_group"}
     /\ \A s \in startDb' :
          /\ s.uUuidCol =>
               \A u \in DOMAIN s.users : db'.users[u].uuid = s.users[u].uuid
          /\ s.gUuidCol =>
               \A g \in DOMAIN s.groups : db'.groups[g].uuid = s.groups[g].uuid
    ]_vars

\* A complete run on an untouched pre-identifier store without the
\* creation_date column has renamed the legacy group and given every row of
\* two users and two groups a uuid, and the memberships are still there.
C15_Witness ==
  /\ UpgradeDone /\ startDb = {db0}
  /\ ~db0.gDateCol /\ ~db0.gUuidCol /\ ~db0.uUuidCol
  /\ Cardinality(DOMAIN db0.users) = 2 /\ Cardinality(DOMAIN db0.groups) = 2
  /\ \E g \in DOMAIN db0.groups : db0.groups[g].display_name = LegacyName
  /\ db0.memberships # {}
  /\ \A u \in DOMAIN db.users : db.users[u].uuid \notin {NoUuid, EmptyUuid}
  /\ \A g \in DOMAIN db.groups : db.groups[g].uuid \notin {NoUuid, EmptyUuid}

\* C16: a step in which a create-table statement, a backfill select or
\* update, the rename update or the version insert fails (from outside, or
\* the rename on the unique key) ends the run at once with that error and
\* changes nothing in the store; the run has inserted no version row.
C16_FailurePropagates ==
  [][((Fail /\ pc \in { "create_users", "create_groups", "select_groups",
                        "update_group", "select_users", "update_user",
                        "create_memberships", "rename", "create_metadata",
                        "insert_version" })
       \/ (RenameStmt /\ RenameConflicts(db)))
      => /\ pc' = "idle"
         /\ lastResult' = "err"
         /\ db' = db
         /\ okRuns' = okRuns
         /\ \A s \in startDb : db'.metadata = s.metadata]_vars

\* A run on an untouched pre-identifier store has returned the error of its
\* version insert: every earlier statement is done, Metadata has no row.
C16_Witness ==
  /\ pc = "idle" /\ lastOp = "upgrade" /\ lastResult = "err"
  /\ db.hasMetadata /\ Len(db.metadata) = 0
  /\ db.hasMemberships /\ DOMAIN db.groups # {}
  /\ \A g \in DOMAIN db.groups :
       db.groups[g].uuid \notin {NoUuid, EmptyUuid}
       /\ db.groups[g].display_name # LegacyName
  /\ \E g \in DOMAIN db0.groups : db0.groups[g].display_name = LegacyName
  /\ okRuns = 0

\* C17: a step in which the pragma or one of the three add-column statements
\* fails (from outside, or because the column exists) does not end the run
\* and changes nothing in the store; the run goes on with the statement
\* after it, which for a failed add-column of uuid is the one after the
\* backfill.
C17_SwallowedFailures ==
  [][((Fail /\ pc \in { "pragma", "add_groups_creation_date",
                        "add_groups_uuid", "add_users_uuid" })
       \/ (AddGroupsCreationDateStmt /\ db.gDateCol)
       \/ (AddGroupsUuidStmt /\ db.gUuidCol)
       \/ (AddUsersUuidStmt /\ db.uUuidCol))
      => /\ db' = db
         /\ lastResult' = "running"
         /\ gSnap' = gSnap /\ uSnap' = uSnap
         /\ pc' = CASE pc = "pragma"                   -> "create_users"
                    [] pc = "add_groups_creation_date" -> "add_groups_uuid"
                    [] pc = "add_groups_uuid"          -> "add_users_uuid"
                    [] pc = "add_users_uuid"           -> "create_memberships"]_vars

\* A run on a store whose groups have their uuid is past the add-column of
\* groups.uuid and has skipped the backfill.
C17_Witness ==
  /\ pc = "add_users_uuid" /\ lastResult = "running"
  /\ db.gUuidCol /\ gSnap = {} /\ gLog = << >>
  /\ Cardinality(DOMAIN db.groups) = 2
  /\ \A g \in DOMAIN db.groups : db.groups[g].uuid \notin {NoUuid, EmptyUuid}

C19_VersionRecordedLast ==
  (get_schema_version(db0) = NoVersion
     /\ get_schema_version(db) = TargetVersion) =>
    /\ db.hasUsers /\ db.hasGroups /\ db.hasMemberships
    /\ db.uUuidCol /\ db.gUuidCol /\ db.gDateCol

====
